---- MODULE Spec2Model ----
(***************************************************************************)
(* Operator Department Updater: the run pipeline of                        *)
(* operator_department_updater.py (main and the helpers it calls).         *)
(*                                                                         *)
(* A Python str is a sequence of one-character strings, so that strip,     *)
(* lower, isdigit and int act on characters.  A csv file is the list of    *)
(* rows csv.reader yields, each row a list of cells.  Column numbers are   *)
(* 0-based as in the source.                                               *)
(***************************************************************************)
EXTENDS Integers, Sequences, FiniteSets, TLC

\* ------------------------------------------------------------------------
\* Python str primitives
\* ------------------------------------------------------------------------

DigitChars == <<"0","1","2","3","4","5","6","7","8","9">>

UpperChars == <<"A","B","C","D","E","F","G","H","I","J","K","L","M",
                "N","O","P","Q","R","S","T","U","V","W","X","Y","Z">>

LowerChars == <<"a","b","c","d","e","f","g","h","i","j","k","l","m",
                "n","o","p","q","r","s","t","u","v","w","x","y","z">>

Whitespace == {" ", "\t"}

isdigit(ch) == \E i \in 1..Len(DigitChars) : DigitChars[i] = ch

lower_char(ch) ==
    IF \E i \in 1..Len(UpperChars) : UpperChars[i] = ch
    THEN LowerChars[CHOOSE i \in 1..Len(UpperChars) : UpperChars[i] = ch]
    ELSE ch

lower(s) == [i \in 1..Len(s) |-> lower_char(s[i])]

RECURSIVE lstrip_set(_, _)
lstrip_set(s, chars) ==
    IF s # << >> /\ Head(s) \in chars THEN lstrip_set(Tail(s), chars) ELSE s

RECURSIVE rstrip_set(_, _)
rstrip_set(s, chars) ==
    IF s # << >> /\ s[Len(s)] \in chars
    THEN rstrip_set(SubSeq(s, 1, Len(s) - 1), chars)
    ELSE s

strip(s) == rstrip_set(lstrip_set(s, Whitespace), Whitespace)

\* ------------------------------------------------------------------------
\* norm_num
\* ------------------------------------------------------------------------

norm_num_drops_one_zero(s) ==
    LET t == SelectSeq(s, isdigit)
    IN  IF t = << >>
        THEN strip(s)
        ELSE IF Len(t) > 1 /\ t[1] = "0" THEN Tail(t) ELSE t

norm_num(s) ==
    LET t == SelectSeq(s, isdigit)
    IN  IF t = << >>
        THEN strip(s)
        ELSE LET u == lstrip_set(t, {"0"})
             IN  IF u = << >> THEN <<"0">> ELSE u

\* ------------------------------------------------------------------------
\* int(str): surrounding whitespace, an optional sign, decimal digits with
\* single underscores between digits.  [ok |-> FALSE] is ValueError.
\* ------------------------------------------------------------------------

digit_val(ch) == (CHOOSE i \in 1..Len(DigitChars) : DigitChars[i] = ch) - 1

RECURSIVE dec_val(_)
dec_val(ds) ==
    IF ds = << >> THEN 0
    ELSE 10 * dec_val(SubSeq(ds, 1, Len(ds) - 1)) + digit_val(ds[Len(ds)])

int_body_ok(b) ==
    /\ b # << >>
    /\ \A i \in 1..Len(b) : isdigit(b[i]) \/ b[i] = "_"
    /\ isdigit(b[1])
    /\ isdigit(b[Len(b)])
    /\ \A i \in 1..(Len(b) - 1) : ~(b[i] = "_" /\ b[i + 1] = "_")

py_int(s) ==
    LET t    == strip(s)
        sgn  == t # << >> /\ t[1] \in {"+", "-"}
        body == IF sgn THEN Tail(t) ELSE t
        mag  == dec_val(SelectSeq(body, isdigit))
    IN  IF int_body_ok(body)
        THEN [ok |-> TRUE, val |-> IF sgn /\ t[1] = "-" THEN 0 - mag ELSE mag]
        ELSE [ok |-> FALSE, val |-> 0]

\* ------------------------------------------------------------------------
\* read_unmatched
\* ------------------------------------------------------------------------

REQ_OPER == "OPER_oper_no"
REQ_NEW  == "CS_Dept"
OPT_OLD  == "AW_Dept"

OPER_SYNONYMS ==
    { <<"o","p","e","r","_","o","p","e","r","_","n","o">>,
      <<"o","p","e","r"," ","n","o">>,
      <<"o","p","e","r","_","n","o">>,
      <<"o","p","e","r","a","t","o","r"," ","i","d">>,
      <<"o","p","e","r","a","t","o","r">>,
      <<"o","p","e","r"," ","i","d">>,
      <<"i","d">>,
      <<"o","p","e","r">> }

NEW_SYNONYMS ==
    { <<"c","s","_","d","e","p","t">>,
      <<"c","s"," ","d","e","p","t">>,
      <<"c","d","_","d","e","p","t">>,
      <<"d","e","p","t","_","c","o","d","e">>,
      <<"d","e","p","t"," ","c","o","d","e">>,
      <<"d","e","p","t">>,
      <<"d","e","p","a","r","t","m","e","n","t">>,
      <<"n","e","w"," ","d","e","p","t">>,
      <<"n","e","w"," ","d","e","p","a","r","t","m","e","n","t">> }

OLD_SYNONYMS ==
    { <<"a","w","_","d","e","p","t">>,
      <<"a","w"," ","d","e","p","t">>,
      <<"a","w","_","d","e","p","t","_","c","o","d","e">>,
      <<"a","w"," ","d","e","p","t"," ","c","o","d","e">> }

synonyms(role) ==
    IF role = REQ_OPER THEN OPER_SYNONYMS
    ELSE IF role = REQ_NEW THEN NEW_SYNONYMS
    ELSE OLD_SYNONYMS

header_low(header) == [i \in 1..Len(header) |-> lower(strip(header[i]))]

\* Columns (0-based) whose lowered header is a synonym of the role.
matches(header, role) ==
    { i \in 0..(Len(header) - 1) : header_low(header)[i + 1] \in synonyms(role) }

max_of(S) == CHOOSE x \in S : \A y \in S : y <= x

\* The loop of lines 146-152: a later matching column overwrites an earlier.
named_map(header) ==
    [role \in { r \in {REQ_OPER, REQ_NEW, OPT_OLD} : matches(header, r) # {} }
        |-> max_of(matches(header, role))]

put(m, k, v) == [x \in (DOMAIN m) \cup {k} |-> IF x = k THEN v ELSE m[x]]

name_map_always_positional(header) ==
    LET m0 == put(named_map(header), REQ_OPER, 0)
    IN  IF Len(header) >= 3 THEN put(put(m0, OPT_OLD, 1), REQ_NEW, 2)
        ELSE IF Len(header) >= 2 THEN put(m0, REQ_NEW, 1)
        ELSE m0

\* Lines 154-160: the positional fallback.
name_map(header) ==
    LET named == named_map(header)
    IN  IF REQ_OPER \notin DOMAIN named \/ REQ_NEW \notin DOMAIN named
        THEN LET m0 == put(named, REQ_OPER, 0)
             IN  IF Len(header) >= 3 THEN put(put(m0, OPT_OLD, 1), REQ_NEW, 2)
                 ELSE IF Len(header) >= 2 THEN put(m0, REQ_NEW, 1)
                 ELSE m0
        ELSE named

cell(r, i) == IF i < Len(r) THEN strip(r[i + 1]) ELSE << >>

make_rec(r, nm) ==
    LET base == put(put(<< >>, REQ_OPER, norm_num(cell(r, nm[REQ_OPER]))),
                    REQ_NEW, norm_num(cell(r, nm[REQ_NEW])))
    IN  IF OPT_OLD \in DOMAIN nm
        THEN put(base, OPT_OLD, norm_num(cell(r, nm[OPT_OLD])))
        ELSE base

\* The loop of lines 166-176 over the data rows; raised is the KeyError of
\* name_map[REQ_NEW] when the role was given no column.
RECURSIVE read_rows(_, _, _)
read_rows(data, nm, out) ==
    IF data = << >> THEN [raised |-> FALSE, out |-> out]
    ELSE LET r == Head(data)
         IN  IF r = << >> THEN read_rows(Tail(data), nm, out)
             ELSE IF REQ_NEW \notin DOMAIN nm THEN [raised |-> TRUE, out |-> << >>]
             ELSE IF cell(r, nm[REQ_OPER]) = << >> \/ cell(r, nm[REQ_NEW]) = << >>
                  THEN read_rows(Tail(data), nm, out)
             ELSE read_rows(Tail(data), nm, Append(out, make_rec(r, nm)))

read_unmatched(rows) ==
    IF Len(rows) < 2 THEN [raised |-> FALSE, out |-> << >>]
    ELSE read_rows(Tail(rows), name_map(rows[1]), << >>)

\* ------------------------------------------------------------------------
\* build_xml: the marker row of lines 248-252, then the data rows.
\* ------------------------------------------------------------------------

SCHEMA_ROW == <<"2022", "101:2", "103:4">>

xml_row_ok(rec) ==
    /\ REQ_OPER \in DOMAIN rec
    /\ REQ_NEW \in DOMAIN rec
    /\ py_int(rec[REQ_OPER]).ok
    /\ py_int(rec[REQ_NEW]).ok

xml_row(rec) ==
    [marker |-> "[u:1]", oper |-> py_int(rec[REQ_OPER]).val, newd |-> py_int(rec[REQ_NEW]).val]

RECURSIVE rows_xml_stops_at_bad(_)
rows_xml_stops_at_bad(records) ==
    IF records = << >> THEN << >>
    ELSE IF xml_row_ok(Head(records))
         THEN <<xml_row(Head(records))>> \o rows_xml_stops_at_bad(Tail(records))
         ELSE << >>

RECURSIVE rows_xml(_)
rows_xml(records) ==
    IF records = << >> THEN << >>
    ELSE IF xml_row_ok(Head(records))
         THEN <<xml_row(Head(records))>> \o rows_xml(Tail(records))
         ELSE rows_xml(Tail(records))

build_xml(records) == [head |-> SCHEMA_ROW, rows |-> rows_xml(records)]

\* ------------------------------------------------------------------------
\* index_active_list.  The reference file is [exists, readable, rows];
\* readable = FALSE is csv_path.open or the decoding raising.  A dict is a
\* function whose domain is its keys.
\* ------------------------------------------------------------------------

any_digit(s) == \E i \in 1..Len(s) : isdigit(s[i])

\* Lines 192-198.
start_idx(rows) ==
    LET first == rows[1]
        c0    == IF Len(first) > 0 THEN strip(first[1]) ELSE << >>
        c3    == IF Len(first) > 3 THEN strip(first[4]) ELSE << >>
    IN  IF first # << >> /\ (~any_digit(c0) \/ ~any_digit(c3)) THEN 1 ELSE 0

setdefault_overwrites(m, k, v) == put(m, k, v)

\* dict.setdefault: the key keeps the value it has.
setdefault(m, k, v) == IF k \in DOMAIN m THEN m ELSE put(m, k, v)

\* The loop of lines 200-210.
RECURSIVE index_rows(_, _, _)
index_rows(data, oper_to_name, dept_to_name) ==
    IF data = << >>
    THEN [raised |-> FALSE, oper_to_name |-> oper_to_name, dept_to_name |-> dept_to_name]
    ELSE LET r == Head(data)
         IN  IF Len(r) < 4 THEN index_rows(Tail(data), oper_to_name, dept_to_name)
             ELSE LET dept_code == norm_num(r[1])
                      dept_name == strip(r[2])
                      oper_name == strip(r[3])
                      oper_id   == norm_num(r[4])
                  IN  index_rows(Tail(data),
                                 IF oper_id # << >>
                                 THEN setdefault(oper_to_name, oper_id, oper_name)
                                 ELSE oper_to_name,
                                 IF dept_code # << >>
                                 THEN setdefault(dept_to_name, dept_code, dept_name)
                                 ELSE dept_to_name)

index_active_list(file) ==
    IF ~file.exists
    THEN [raised |-> FALSE, oper_to_name |-> << >>, dept_to_name |-> << >>]
    ELSE IF ~file.readable
    THEN [raised |-> TRUE, oper_to_name |-> << >>, dept_to_name |-> << >>]
    ELSE IF file.rows = << >>
    THEN [raised |-> FALSE, oper_to_name |-> << >>, dept_to_name |-> << >>]
    ELSE index_rows(SubSeq(file.rows, start_idx(file.rows) + 1, Len(file.rows)), << >>, << >>)

\* ------------------------------------------------------------------------
\* row_line and rows_html (lines 413-424): a table row is the three ids and
\* the three names rendered beside them.
\* ------------------------------------------------------------------------

NOT_FOUND == <<"N","o","t"," ","F","o","u","n","d">>

TableCap == 400

\* rec.get(key, "").
get_or_empty(rec, key) == IF key \in DOMAIN rec THEN rec[key] ELSE << >>

name_or(m, k) == IF k \in DOMAIN m /\ m[k] # << >> THEN m[k] ELSE NOT_FOUND

row_line_blank_on_miss(rec, oper_to_name, dept_to_name) ==
    LET oper == get_or_empty(rec, REQ_OPER)
        newd == get_or_empty(rec, REQ_NEW)
        oldd == get_or_empty(rec, OPT_OLD)
        blank(m, k) == IF k \in DOMAIN m THEN m[k] ELSE << >>
    IN  [oper |-> oper, op_name |-> blank(oper_to_name, oper),
         oldd |-> oldd, old_name |-> blank(dept_to_name, oldd),
         newd |-> newd, new_name |-> blank(dept_to_name, newd)]

row_line(rec, oper_to_name, dept_to_name) ==
    LET oper == get_or_empty(rec, REQ_OPER)
        newd == get_or_empty(rec, REQ_NEW)
        oldd == get_or_empty(rec, OPT_OLD)
    IN  [oper |-> oper, op_name |-> name_or(oper_to_name, oper),
         oldd |-> oldd,
         old_name |-> IF oldd # << >> THEN name_or(dept_to_name, oldd) ELSE NOT_FOUND,
         newd |-> newd,
         new_name |-> IF newd # << >> THEN name_or(dept_to_name, newd) ELSE NOT_FOUND]

rows_html(records, oper_to_name, dept_to_name) ==
    [i \in 1..(IF Len(records) < TableCap THEN Len(records) ELSE TableCap)
        |-> row_line(records[i], oper_to_name, dept_to_name)]

\* ------------------------------------------------------------------------
\* remove_old_files.  A folder is [exists, listing]; a file of a managed
\* folder is [name, mtime, locked], its name [prefix, stamp, ext]; locked is
\* unlink raising.  A pattern is [prefix, ext]: "*.txt" has prefix "".
\* Times are in seconds.
\* ------------------------------------------------------------------------

DAY == 86400

glob_match(name, pattern) ==
    /\ pattern.prefix = "" \/ name.prefix = pattern.prefix
    /\ name.ext = pattern.ext

\* The loop of lines 76-82: [removed, listing], listing what is left.
RECURSIVE prune_scan_at_cutoff(_, _, _, _, _)
prune_scan_at_cutoff(ps, pattern, cutoff, removed, left) ==
    IF ps = << >> THEN [removed |-> removed, listing |-> left]
    ELSE LET p == Head(ps)
         IN  IF glob_match(p.name, pattern) /\ p.mtime <= cutoff /\ ~p.locked
             THEN prune_scan_at_cutoff(Tail(ps), pattern, cutoff, removed + 1, left)
             ELSE prune_scan_at_cutoff(Tail(ps), pattern, cutoff, removed, Append(left, p))

RECURSIVE prune_scan(_, _, _, _, _)
prune_scan(ps, pattern, cutoff, removed, left) ==
    IF ps = << >> THEN [removed |-> removed, listing |-> left]
    ELSE LET p == Head(ps)
         IN  IF glob_match(p.name, pattern) /\ p.mtime < cutoff /\ ~p.locked
             THEN prune_scan(Tail(ps), pattern, cutoff, removed + 1, left)
             ELSE prune_scan(Tail(ps), pattern, cutoff, removed, Append(left, p))

\* now is time.time() at line 74.
remove_old_files(folder, pattern, retain_days, now) ==
    IF retain_days <= 0 \/ ~folder.exists
    THEN [removed |-> 0, listing |-> folder.listing]
    ELSE prune_scan(folder.listing, pattern, now - retain_days * DAY, 0, << >>)

\* The patterns of lines 318 and 462, and the names of lines 291, 307, 336
\* and 446.  ctx.when is [date, hms, micro]; ctx.stamp keeps the date and
\* the time to the second, xml_name the date.
INPUT_PATTERN == [prefix |-> "UnmatchedDepartment_", ext |-> "csv"]
LOGS_PATTERN  == [prefix |-> "", ext |-> "txt"]

stamp(when) == <<when.date, when.hms>>

artifact_paths(when) ==
    [input |-> [dir |-> "UnmatchedDepartment_Input",
                name |-> [prefix |-> "UnmatchedDepartment_", stamp |-> stamp(when), ext |-> "csv"]],
     xml   |-> [dir |-> "DataLoad_21.1.x",
                name |-> [prefix |-> "", stamp |-> <<when.date>>,
                          ext |-> " update operator depts.xml"]],
     log   |-> [dir |-> "logs",
                name |-> [prefix |-> "DepartmentUpdate_LOG_", stamp |-> stamp(when), ext |-> "txt"]],
     email |-> [dir |-> "emails",
                name |-> [prefix |-> "DepartmentUpdate_EMAIL_", stamp |-> stamp(when), ext |-> "html"]]]

\* What the retention calls of one completed run leave in the managed
\* folders: lines 318 and 462; no call is made on emails_dir.
run_retention(folders, retain_days, now) ==
    [input  |-> remove_old_files(folders.input, INPUT_PATTERN, retain_days, now).listing,
     logs   |-> remove_old_files(folders.logs, LOGS_PATTERN, retain_days, now).listing,
     emails |-> folders.emails.listing]

\* ------------------------------------------------------------------------
\* find_latest_txt_after and the choice of lines 401-403.
\* A folder is [exists, listing]: listing is what folder.glob("*") would
\* yield, in the order the file system yields it; a file is [stem, ext, mtime].
\* ------------------------------------------------------------------------

NoFile == [stem |-> "", ext |-> "", mtime |-> 0]

glob_txt(listing) == SelectSeq(listing, LAMBDA f : f.ext = "txt")

RECURSIVE scan_last_match(_, _, _)
scan_last_match(ps, epoch, newest) ==
    IF ps = << >> THEN newest
    ELSE LET p == Head(ps)
         IN  IF p.mtime >= epoch
             THEN scan_last_match(Tail(ps), epoch, p)
             ELSE scan_last_match(Tail(ps), epoch, newest)

\* The loop of lines 90-96: newest starts as None with newest_mtime 0.0.
RECURSIVE scan_latest(_, _, _)
scan_latest(ps, epoch, newest) ==
    IF ps = << >> THEN newest
    ELSE LET p == Head(ps)
         IN  IF p.mtime >= epoch /\ p.mtime > newest.mtime
             THEN scan_latest(Tail(ps), epoch, p)
             ELSE scan_latest(Tail(ps), epoch, newest)

find_latest_txt_after(folder, epoch) ==
    IF ~folder.exists THEN NoFile
    ELSE scan_latest(glob_txt(folder.listing), epoch, NoFile)

\* max(iterable, key=mtime): the first of the greatest; ValueError when empty.
RECURSIVE max_by_mtime(_, _)
max_by_mtime(ps, best) ==
    IF ps = << >> THEN best
    ELSE IF Head(ps).mtime > best.mtime
         THEN max_by_mtime(Tail(ps), Head(ps))
         ELSE max_by_mtime(Tail(ps), best)

\* Lines 401-403: [raised, file]; file = NoFile is None.
locate_fa_txt(folder, epoch) ==
    LET first == find_latest_txt_after(folder, epoch)
        txts  == glob_txt(folder.listing)
    IN  IF first # NoFile THEN [raised |-> FALSE, file |-> first]
        ELSE IF ~folder.exists THEN [raised |-> FALSE, file |-> NoFile]
        ELSE IF txts = << >> THEN [raised |-> TRUE, file |-> NoFile]
        ELSE [raised |-> FALSE, file |-> max_by_mtime(Tail(txts), Head(txts))]

\* Lines 404-409: what the report embeds.
fa_log_html_of(file) ==
    IF file # NoFile THEN [kind |-> "raw log", file |-> file]
    ELSE [kind |-> "(No FA .txt log found)", file |-> NoFile]

\* ------------------------------------------------------------------------
\* Bounds and the inputs of a run
\* ------------------------------------------------------------------------

MaxMainRows == 2
MaxMtime == 3
RunEpoch == 2
MaxExit == 1

RECURSIVE seqs_upto(_, _)
seqs_upto(S, n) ==
    IF n = 0 THEN { << >> }
    ELSE LET shorter == seqs_upto(S, n - 1)
         IN  shorter \cup { Append(q, x) : q \in { t \in shorter : Len(t) = n - 1 }, x \in S }

H_OperNo == <<"O","p","e","r","_","N","o">>
H_dept   == <<" ","d","e","p","t"," ">>
H_name   == <<"n","a","m","e">>

\* Data rows of the source file: both cells integers, a non-numeric operator
\* id, a non-numeric department.
MainRows ==
    { << <<"0","0","4","2">>, <<" ","0","0","7">> >>,
      << <<"A">>, <<"1","0">> >>,
      << <<"5">>, <<"x">> >> }

\* Source files: a named header and up to MaxMainRows data rows; a file of
\* blank cells; a one-column file; a three-column file with no named header.
SourceFiles ==
    { << <<H_OperNo, H_dept>> >> \o d : d \in seqs_upto(MainRows, MaxMainRows) }
    \cup { << <<H_OperNo, H_dept>>, << <<" ">>, << >> >>, << >> >>,
           << <<H_name>>, << <<"5">> >> >>,
           << <<H_name, H_name, H_name>>, << <<"9">>, <<"0","3">>, <<"0","0">> >> >> }

OldLog   == [stem |-> "old", ext |-> "txt", mtime |-> RunEpoch - 1]
OtherLog == [stem |-> "note", ext |-> "log", mtime |-> RunEpoch]

\* ASSETS_ACTIVE as line 397 finds it, and the index before that line.
NoActive == [exists |-> FALSE, readable |-> FALSE, rows |-> << >>]

NoIndex == [built |-> FALSE, active |-> NoActive, oper_to_name |-> << >>, dept_to_name |-> << >>]

\* The reference file: a department row that names operator 42 and
\* department 7, after a header row.
MainActive ==
    << <<H_dept, H_name, H_name, H_OperNo>>,
       << <<"0","0","7">>, <<"F","l","e","e","t">>, <<"J","a","n","e">>, <<"4","2">> >> >>

ActiveStates ==
    { NoActive,
      [exists |-> TRUE, readable |-> FALSE, rows |-> << >>],
      [exists |-> TRUE, readable |-> TRUE, rows |-> MainActive] }

\* The loader's log subfolder before the run.
LogFolders ==
    { [exists |-> FALSE, listing |-> << >>],
      [exists |-> TRUE, listing |-> << >>],
      [exists |-> TRUE, listing |-> <<OtherLog>>],
      [exists |-> TRUE, listing |-> <<OldLog, OtherLog>>] }

\* ------------------------------------------------------------------------
\* State
\* ------------------------------------------------------------------------

VARIABLES
    pc,              \* the step main is about to execute
    steps,           \* the steps completed so far, in order
    subject_status,  \* ctx.subject_status
    lines,           \* ctx.lines
    source,          \* ASSETS_INPUT: [exists, rows]
    dest_csv,        \* dest_csv: [set, exists, rows] (set = FALSE is None)
    records,         \* records
    xml,             \* [generated, written, doc]: xml_generated and the file at xml_path
    exe_exists,      \* FADATALOADER.EXE is in dataload_dir
    loader,          \* [launched, start_epoch, fa_result]
    fa_txt_folder,   \* dataload_dir/logs/2022
    fa_txt,          \* [file, html]: fa_txt and fa_log_html
    email,           \* [saved, submitted, status, count, sent]
    fatal,           \* [raised, at, cause, logged]: the handler of lines 468-473
    propagated,      \* an exception left main
    ran,             \* how subprocess.run ended: [outcome, rc]; outcome "" while not run
    index,           \* [built, active, oper_to_name, dept_to_name]: the result of line 397
    call,            \* a direct call of a helper: [fn, arg]
    ret              \* its result: [done, value]

run_vars == <<steps, subject_status, lines, dest_csv, records, xml, loader,
              fa_txt_folder, fa_txt, email, ran>>
env_vars == <<source, exe_exists, call, ret>>
vars == <<pc, run_vars, env_vars, fatal, propagated, index>>

line(msg, n) == [msg |-> msg, n |-> n]

add(msg, n) == Append(lines, line(msg, n))

NoResult == [head |-> "FAILED", rest |-> "(did not run)", code |-> 0]

Init ==
    /\ pc = "load_config"
    /\ steps = << >>
    /\ subject_status = "OK"
    /\ lines = << >>
    /\ source \in { [exists |-> FALSE, rows |-> << >>] }
                  \cup { [exists |-> TRUE, rows |-> f] : f \in SourceFiles }
    /\ dest_csv = [set |-> FALSE, exists |-> FALSE, rows |-> << >>]
    /\ records = << >>
    /\ xml = [generated |-> FALSE, written |-> FALSE, doc |-> build_xml(<< >>)]
    /\ exe_exists \in BOOLEAN
    /\ loader = [launched |-> FALSE, start_epoch |-> 0, fa_result |-> NoResult]
    /\ fa_txt_folder \in LogFolders
    /\ fa_txt = [file |-> NoFile, html |-> fa_log_html_of(NoFile)]
    /\ email = [saved |-> FALSE, submitted |-> FALSE, status |-> "", count |-> 0, sent |-> FALSE,
                rendered |-> FALSE, table |-> << >>]
    /\ index = NoIndex
    /\ fatal = [raised |-> FALSE, at |-> "", cause |-> "", logged |-> FALSE]
    /\ propagated = FALSE
    /\ ran = [outcome |-> "", rc |-> 0]
    /\ call = [fn |-> "main", arg |-> << >>]
    /\ ret = [done |-> FALSE, value |-> << >>]

\* An exception raised in the try block of lines 281-466 while at step pc.
enter_handler_reraise(at, cause) ==
    /\ pc' = "returned"
    /\ fatal' = [raised |-> TRUE, at |-> at, cause |-> cause, logged |-> FALSE]
    /\ propagated' = TRUE
    /\ UNCHANGED <<run_vars, env_vars, index>>

enter_handler(at, cause) ==
    /\ pc' = "except"
    /\ fatal' = [raised |-> TRUE, at |-> at, cause |-> cause, logged |-> FALSE]
    /\ UNCHANGED <<run_vars, env_vars, propagated, index>>

goto(next) ==
    /\ steps' = Append(steps, pc)
    /\ pc' = next
    /\ UNCHANGED <<env_vars, fatal, propagated, index>>

\* Line 282: get_config_path, load_config.
LoadConfig ==
    /\ pc = "load_config"
    /\ \E ok \in BOOLEAN :
         IF ok
         THEN /\ goto("prepare")
              /\ UNCHANGED <<subject_status, lines, dest_csv, records, xml, loader,
                             fa_txt_folder, fa_txt, email, ran>>
         ELSE enter_handler("load_config", "config.ini missing or incomplete")

\* Lines 283-302: the managed folders, the run log, the settings.
Prepare ==
    /\ pc = "prepare"
    /\ \E ok \in BOOLEAN :
         IF ok
         THEN /\ goto("copy_input")
              /\ UNCHANGED <<subject_status, lines, dest_csv, records, xml, loader,
                             fa_txt_folder, fa_txt, email, ran>>
         ELSE enter_handler("prepare", "OSError")

copy_result_keeps_status(outcome, k) ==
    IF ~source.exists
    THEN [dest |-> [set |-> FALSE, exists |-> FALSE, rows |-> << >>],
          msg |-> "Input source not found", status |-> "ISSUE"]
    ELSE IF outcome = "ok"
    THEN [dest |-> [set |-> TRUE, exists |-> TRUE, rows |-> source.rows],
          msg |-> "Input CSV copied to local input folder", status |-> subject_status]
    ELSE IF outcome = "failed"
    THEN [dest |-> [set |-> TRUE, exists |-> FALSE, rows |-> << >>],
          msg |-> "Input copy failed", status |-> subject_status]
    ELSE [dest |-> [set |-> TRUE, exists |-> TRUE, rows |-> SubSeq(source.rows, 1, k)],
          msg |-> "Input copy failed", status |-> subject_status]

\* Lines 304-316: copy is "ok", or write_bytes raised having created no file
\* ("failed") or having written the first k rows ("partial").
copy_result(outcome, k) ==
    IF ~source.exists
    THEN [dest |-> [set |-> FALSE, exists |-> FALSE, rows |-> << >>],
          msg |-> "Input source not found", status |-> "ISSUE"]
    ELSE IF outcome = "ok"
    THEN [dest |-> [set |-> TRUE, exists |-> TRUE, rows |-> source.rows],
          msg |-> "Input CSV copied to local input folder", status |-> subject_status]
    ELSE IF outcome = "failed"
    THEN [dest |-> [set |-> TRUE, exists |-> FALSE, rows |-> << >>],
          msg |-> "Input copy failed", status |-> "ISSUE"]
    ELSE [dest |-> [set |-> TRUE, exists |-> TRUE, rows |-> SubSeq(source.rows, 1, k)],
          msg |-> "Input copy failed", status |-> "ISSUE"]

Step1Copy ==
    /\ pc = "copy_input"
    /\ \E outcome \in {"ok", "failed", "partial"}, k \in 0..Len(source.rows) :
         LET c == copy_result(outcome, k)
         IN  /\ dest_csv' = c.dest
             /\ lines' = add(c.msg, 0)
             /\ subject_status' = c.status
    /\ goto("prune_inputs")
    /\ UNCHANGED <<records, xml, loader, fa_txt_folder, fa_txt, email, ran>>

\* Lines 318-320: remove_old_files on the input folder.
PruneInputs ==
    /\ pc = "prune_inputs"
    /\ \E ok \in BOOLEAN :
         IF ok
         THEN /\ goto("parse")
              /\ UNCHANGED <<subject_status, lines, dest_csv, records, xml, loader,
                             fa_txt_folder, fa_txt, email, ran>>
         ELSE enter_handler("prune_inputs", "OSError")

\* Lines 322-332: readable = FALSE is an I/O failure of csv_path.open.
parse_result(readable) ==
    LET r == read_unmatched(dest_csv.rows)
    IN  IF ~(dest_csv.set /\ dest_csv.exists)
        THEN [records |-> << >>, lines |-> lines, status |-> subject_status]
        ELSE IF ~readable \/ r.raised
        THEN [records |-> << >>, lines |-> add("CSV parse failed", 0), status |-> "ISSUE"]
        ELSE [records |-> r.out, lines |-> add("Parsed record(s) from CSV", Len(r.out)),
              status |-> IF r.out = << >> THEN "ISSUE" ELSE subject_status]

Step2Parse ==
    /\ pc = "parse"
    /\ \E readable \in BOOLEAN :
         LET p == parse_result(readable)
         IN  /\ records' = p.records
             /\ lines' = p.lines
             /\ subject_status' = p.status
    /\ goto("build_xml")
    /\ UNCHANGED <<dest_csv, xml, loader, fa_txt_folder, fa_txt, email, ran>>

xml_result_writes_empty(writable) ==
    IF writable
    THEN [xml |-> [generated |-> TRUE, written |-> TRUE, doc |-> build_xml(records)],
          lines |-> add("XML generated", 0), status |-> subject_status]
    ELSE [xml |-> xml, lines |-> add("XML generation failed", 0), status |-> "ISSUE"]

\* Lines 334-349: writable = FALSE is xml_path.write_text raising.
xml_result(writable) ==
    IF records = << >>
    THEN [xml |-> xml, lines |-> add("No records to write into XML", 0), status |-> "ISSUE"]
    ELSE IF writable
    THEN [xml |-> [generated |-> TRUE, written |-> TRUE, doc |-> build_xml(records)],
          lines |-> add("XML generated", 0), status |-> subject_status]
    ELSE [xml |-> xml, lines |-> add("XML generation failed", 0), status |-> "ISSUE"]

Step3BuildXml ==
    /\ pc = "build_xml"
    /\ \E writable \in BOOLEAN :
         LET x == xml_result(writable)
         IN  /\ xml' = x.xml
             /\ lines' = x.lines
             /\ subject_status' = x.status
    /\ goto("runfile")
    /\ UNCHANGED <<dest_csv, records, loader, fa_txt_folder, fa_txt, email, ran>>

\* Lines 351-364.
Step4Runfile ==
    /\ pc = "runfile"
    /\ \E writable \in BOOLEAN :
         lines' = add(IF writable THEN "Data loader runfile prepared" ELSE "Runfile write failed", 0)
    /\ goto("run_loader")
    /\ UNCHANGED <<subject_status, dest_csv, records, xml, loader, fa_txt_folder, fa_txt, email, ran>>

\* Lines 366-392: fa_result is [head, rest, code], head its first word.
\* outcome is how subprocess.run ended: "exit" with return code rc,
\* "timeout" (TimeoutExpired after 180 s) or "exception".
ran_result(outcome, rc) ==
    IF outcome = "exit"
    THEN IF rc = 0 THEN [head |-> "SUCCESS", rest |-> "", code |-> 0]
         ELSE [head |-> "FAILED", rest |-> "(exit code)", code |-> rc]
    ELSE IF outcome = "timeout" THEN [head |-> "FAILED", rest |-> "(timeout)", code |-> 0]
    ELSE [head |-> "FAILED", rest |-> "(exception)", code |-> 0]

loader_result_ignores_exe(outcome, rc, now) ==
    IF xml.generated
    THEN [launched |-> TRUE, start_epoch |-> now, fa_result |-> ran_result(outcome, rc)]
    ELSE [launched |-> FALSE, start_epoch |-> now,
          fa_result |-> [head |-> "SKIPPED", rest |-> "(no XML)", code |-> 0]]

loader_result(outcome, rc, now) ==
    IF xml.generated /\ exe_exists
    THEN [launched |-> TRUE, start_epoch |-> now, fa_result |-> ran_result(outcome, rc)]
    ELSE IF ~xml.generated
    THEN [launched |-> FALSE, start_epoch |-> now,
          fa_result |-> [head |-> "SKIPPED", rest |-> "(no XML)", code |-> 0]]
    ELSE [launched |-> FALSE, start_epoch |-> now,
          fa_result |-> [head |-> "FAILED", rest |-> "(FADATALOADER.EXE not found)", code |-> 0]]

\* Line 393: fa_result.startswith("SUCCESS").
status_keeps_issue(fa_result) ==
    IF fa_result.head = "SUCCESS" /\ subject_status # "ISSUE" THEN "SUCCESS" ELSE "ISSUE"

status_of(fa_result) == IF fa_result.head = "SUCCESS" THEN "SUCCESS" ELSE "ISSUE"

\* What the loader leaves in its log subfolder: nothing, or a new log whose
\* modification time is not before RunEpoch, the clock at the start of the
\* invocation (line 369).
folder_after(l, wrote, m) ==
    IF l.launched /\ wrote
    THEN [exists |-> TRUE,
          listing |-> Append(fa_txt_folder.listing, [stem |-> "run", ext |-> "txt", mtime |-> m])]
    ELSE fa_txt_folder

Step5RunLoader ==
    /\ pc = "run_loader"
    /\ \E outcome \in {"exit", "timeout", "exception"}, rc \in 0..MaxExit,
          wrote \in BOOLEAN, m \in RunEpoch..MaxMtime :
         LET l == loader_result(outcome, rc, RunEpoch)
         IN  /\ loader' = l
             /\ ran' = IF l.launched THEN [outcome |-> outcome, rc |-> IF outcome = "exit" THEN rc ELSE 0]
                                     ELSE ran
             /\ fa_txt_folder' = folder_after(l, wrote /\ outcome # "exception", m)
             /\ subject_status' = status_of(l.fa_result)
             /\ lines' = add("Data loader: " \o l.fa_result.head \o " " \o l.fa_result.rest,
                             l.fa_result.code)
    /\ goto("index_names")
    /\ UNCHANGED <<dest_csv, records, xml, fa_txt, email>>

\* Lines 396-397: index_active_list on the reference file as it is found.
Step6Index ==
    /\ pc = "index_names"
    /\ \E active \in ActiveStates :
         LET r == index_active_list(active)
         IN  IF r.raised
             THEN enter_handler("index_names", "OSError")
             ELSE /\ index' = [built |-> TRUE, active |-> active,
                               oper_to_name |-> r.oper_to_name, dept_to_name |-> r.dept_to_name]
                  /\ steps' = Append(steps, pc)
                  /\ pc' = "find_log"
                  /\ UNCHANGED <<env_vars, fatal, propagated>>
                  /\ UNCHANGED <<subject_status, lines, dest_csv, records, xml, loader,
                                 fa_txt_folder, fa_txt, email, ran>>

\* The orders in which the file system may list a folder.
orderings(listing) ==
    { [i \in 1..Len(listing) |-> listing[f[i]]] :
        f \in { g \in [1..Len(listing) -> 1..Len(listing)] :
                  \A i, j \in 1..Len(listing) : g[i] = g[j] => i = j } }

\* Lines 399-409: readable = FALSE is fa_txt.open raising.
Step7FindLog ==
    /\ pc = "find_log"
    /\ \E order \in orderings(fa_txt_folder.listing), readable \in BOOLEAN :
         LET r == locate_fa_txt([exists |-> fa_txt_folder.exists, listing |-> order],
                                loader.start_epoch)
         IN  IF r.raised \/ (r.file # NoFile /\ ~readable)
             THEN enter_handler("find_log", IF r.raised THEN "ValueError: max() arg is an empty sequence"
                                                     ELSE "OSError")
             ELSE /\ fa_txt' = [file |-> r.file, html |-> fa_log_html_of(r.file)]
                  /\ goto("save_email")
                  /\ UNCHANGED <<subject_status, lines, dest_csv, records, xml, loader,
                                 fa_txt_folder, email, ran>>

\* Lines 411-451: outcome "raise" is ensure_dir(emails_dir) raising.
Step8SaveEmail ==
    /\ pc = "save_email"
    /\ \E outcome \in {"saved", "save failed", "raise"} :
         IF outcome = "raise"
         THEN enter_handler("save_email", "OSError")
         ELSE /\ email' = [email EXCEPT !.saved = (outcome = "saved"), !.rendered = TRUE,
                                        !.table = rows_html(records, index.oper_to_name,
                                                            index.dept_to_name)]
              /\ lines' = add(IF outcome = "saved" THEN "Email report generated and saved"
                                                   ELSE "Email HTML save failed", 0)
              /\ goto("send_email")
              /\ UNCHANGED <<subject_status, dest_csv, records, xml, loader,
                             fa_txt_folder, fa_txt, ran>>

\* Lines 453-459: the subject carries ctx.subject_status and len(records).
subject_count == Len(records)

Step8SendEmail ==
    /\ pc = "send_email"
    /\ \E sent \in BOOLEAN :
         /\ email' = [email EXCEPT !.submitted = TRUE, !.status = subject_status,
                                   !.count = subject_count, !.sent = sent]
         /\ lines' = add(IF sent THEN "Email sent" ELSE "Email send failed", 0)
    /\ goto("prune_logs")
    /\ UNCHANGED <<subject_status, dest_csv, records, xml, loader, fa_txt_folder, fa_txt, ran>>

\* Lines 461-464: remove_old_files on the logs folder.
Step9PruneLogs ==
    /\ pc = "prune_logs"
    /\ \E ok \in BOOLEAN :
         IF ok
         THEN /\ goto("append_loader_log")
              /\ UNCHANGED <<subject_status, lines, dest_csv, records, xml, loader,
                             fa_txt_folder, fa_txt, email, ran>>
         ELSE enter_handler("prune_logs", "OSError")

\* Lines 465-466: append_full_loader_log swallows its own failures.
Step9AppendLoaderLog ==
    /\ pc = "append_loader_log"
    /\ goto("returned")
    /\ UNCHANGED <<subject_status, lines, dest_csv, records, xml, loader,
                   fa_txt_folder, fa_txt, email, ran>>

\* Lines 468-473: the [FATAL] line, written or not.
HandleFatal ==
    /\ pc = "except"
    /\ \E written \in BOOLEAN : fatal' = [fatal EXCEPT !.logged = written]
    /\ pc' = "returned"
    /\ UNCHANGED <<run_vars, env_vars, propagated, index>>

Next ==
    \/ LoadConfig
    \/ Prepare
    \/ Step1Copy
    \/ PruneInputs
    \/ Step2Parse
    \/ Step3BuildXml
    \/ Step4Runfile
    \/ Step5RunLoader
    \/ Step6Index
    \/ Step7FindLog
    \/ Step8SaveEmail
    \/ Step8SendEmail
    \/ Step9PruneLogs
    \/ Step9AppendLoaderLog
    \/ HandleFatal

Spec == Init /\ [][Next]_vars

\* ------------------------------------------------------------------------
\* Direct calls of the helpers, on inputs main need not produce
\* ------------------------------------------------------------------------

MaxDataRows == 2

H_DEPT == <<"D","E","P","T">>
H_AW   == <<"A","W","_","D","e","p","t">>
H_id   == <<"i","d">>

Headers ==
    { << >>,
      <<H_name>>, <<H_dept>>, <<H_OperNo>>,
      <<H_OperNo, H_dept>>, <<H_dept, H_OperNo>>, <<H_name, H_name>>,
      <<H_dept, H_name>>, <<H_AW, H_name>>,
      <<H_name, H_name, H_name>>, <<H_AW, H_dept, H_OperNo>>, <<H_OperNo, H_name, H_name>>,
      <<H_name, H_OperNo, H_name, H_dept>>, <<H_dept, H_DEPT, H_id, H_name>> }

DataRows ==
    { << <<"0","0","4","2">>, <<" ","0","0","7">> >>,
      << <<"A">>, <<"1","0">> >>,
      << <<" ">>, <<"5">> >>,
      << >>,
      << <<"7">> >>,
      << <<"x","1">>, <<"0","0","0">>, <<"3">>, <<"0","8">> >>,
      << <<"5">>, <<"x">>, <<"9">> >> }

ParseFiles ==
    { << >> } \cup { <<h>> \o d : h \in Headers, d \in seqs_upto(DataRows, MaxDataRows) }

LogPool ==
    { [stem |-> st, ext |-> "txt", mtime |-> m] : st \in {"a", "b"}, m \in 1..MaxMtime }
    \cup { [stem |-> "c", ext |-> "log", mtime |-> m] : m \in 1..MaxMtime }

\* Listings: files of distinct names, in any order.
Listings ==
    { l \in seqs_upto(LogPool, 3) :
        \A i, j \in 1..Len(l) : l[i].stem = l[j].stem => i = j }

Idle ==
    /\ pc = "idle"
    /\ steps = << >>
    /\ subject_status = "OK"
    /\ lines = << >>
    /\ source = [exists |-> FALSE, rows |-> << >>]
    /\ dest_csv = [set |-> FALSE, exists |-> FALSE, rows |-> << >>]
    /\ records = << >>
    /\ xml = [generated |-> FALSE, written |-> FALSE, doc |-> build_xml(<< >>)]
    /\ exe_exists = FALSE
    /\ loader = [launched |-> FALSE, start_epoch |-> 0, fa_result |-> NoResult]
    /\ fa_txt_folder = [exists |-> FALSE, listing |-> << >>]
    /\ fa_txt = [file |-> NoFile, html |-> fa_log_html_of(NoFile)]
    /\ email = [saved |-> FALSE, submitted |-> FALSE, status |-> "", count |-> 0, sent |-> FALSE,
                rendered |-> FALSE, table |-> << >>]
    /\ index = NoIndex
    /\ fatal = [raised |-> FALSE, at |-> "", cause |-> "", logged |-> FALSE]
    /\ propagated = FALSE
    /\ ran = [outcome |-> "", rc |-> 0]
    /\ ret = [done |-> FALSE, value |-> << >>]

returns(value) ==
    /\ ~ret.done
    /\ ret' = [done |-> TRUE, value |-> value]
    /\ UNCHANGED <<pc, run_vars, source, exe_exists, call, fatal, propagated, index>>

\* read_unmatched(csv_path) on a readable file; name_map is reported with
\* the result.
InitParse == Idle /\ call \in { [fn |-> "read_unmatched", arg |-> f] : f \in ParseFiles }

CallReadUnmatched ==
    /\ call.fn = "read_unmatched"
    /\ LET r == read_unmatched(call.arg)
       IN  returns([raised |-> r.raised, out |-> r.out,
                    name_map |-> IF Len(call.arg) < 2 THEN << >> ELSE name_map(call.arg[1])])

SpecParse == InitParse /\ [][CallReadUnmatched]_vars

\* Lines 399-409 on a folder and a start_epoch.
InitLog ==
    /\ Idle
    /\ call \in { [fn |-> "locate_fa_txt", arg |-> [folder |-> [exists |-> e, listing |-> l], epoch |-> t]] :
                    e \in BOOLEAN, l \in Listings, t \in 1..MaxMtime }
    /\ call.arg.folder.exists \/ call.arg.folder.listing = << >>

CallLocate ==
    /\ call.fn = "locate_fa_txt"
    /\ LET r == locate_fa_txt(call.arg.folder, call.arg.epoch)
       IN  returns([raised |-> r.raised, file |-> r.file,
                    html |-> IF r.raised THEN fa_log_html_of(NoFile) ELSE fa_log_html_of(r.file)])

SpecLog == InitLog /\ [][CallLocate]_vars

\* index_active_list(csv_path): reference files of up to MaxActiveRows rows.
MaxActiveRows == 3

ActiveRowPool ==
    { <<H_DEPT, H_name, H_name, H_id>>,
      << <<"1","0">>, <<"S">>, <<" ","J">>, <<"0","0","7">> >>,
      << <<"0","1","0">>, <<"T">>, <<"K">>, <<"7">> >>,
      << <<" ">>, <<"U">>, <<"L">>, <<"8">> >>,
      << <<"1","0">>, <<"S">>, <<"J">> >>,
      << <<"1","0">>, << >>, <<" ">>, <<"x">> >>,
      << >>,
      << <<"d","5">>, <<"V">>, <<"M">>, <<"9">>, <<"e">> >> }

ActiveFiles ==
    { NoActive, [exists |-> TRUE, readable |-> FALSE, rows |-> << >>] }
    \cup { [exists |-> TRUE, readable |-> TRUE, rows |-> f] :
             f \in seqs_upto(ActiveRowPool, MaxActiveRows) }

InitIndex == Idle /\ call \in { [fn |-> "index_active_list", arg |-> f] : f \in ActiveFiles }

CallIndexActiveList ==
    /\ call.fn = "index_active_list"
    /\ returns(index_active_list(call.arg))

SpecIndex == InitIndex /\ [][CallIndexActiveList]_vars

\* rows_html on records as read_unmatched returns them and on the index of a
\* reference file.
MaxShownRows == 2

ShownRecords ==
    { put(put(<< >>, REQ_OPER, <<"4","2">>), REQ_NEW, <<"7">>),
      put(put(put(<< >>, REQ_OPER, <<"4","2">>), REQ_NEW, <<"7">>), OPT_OLD, <<"1","0">>),
      put(put(put(<< >>, REQ_OPER, <<"A">>), REQ_NEW, <<"1","0">>), OPT_OLD, << >>),
      put(put(put(<< >>, REQ_OPER, <<"x">>), REQ_NEW, <<"5">>), OPT_OLD, <<"8">>) }

ReportRowPool ==
    { << <<"0","0","7">>, <<"F","l","e","e","t">>, <<"J","a","n","e">>, <<"4","2">> >>,
      << <<"1","0">>, << >>, <<" ">>, <<"x">> >>,
      << <<"5">>, <<"S">>, <<"J">>, <<"A">> >> }

ReportIndexes ==
    { index_active_list(f) :
        f \in { NoActive } \cup { [exists |-> TRUE, readable |-> TRUE, rows |-> r] :
                                     r \in seqs_upto(ReportRowPool, MaxShownRows) } }

InitReport ==
    /\ Idle
    /\ call \in { [fn |-> "rows_html",
                    arg |-> [records |-> rs, oper_to_name |-> ix.oper_to_name,
                             dept_to_name |-> ix.dept_to_name]] :
                    rs \in seqs_upto(ShownRecords, MaxShownRows), ix \in ReportIndexes }

CallRowsHtml ==
    /\ call.fn = "rows_html"
    /\ returns(rows_html(call.arg.records, call.arg.oper_to_name, call.arg.dept_to_name))

SpecReport == InitReport /\ [][CallRowsHtml]_vars

\* norm_num(s) on every string of up to MaxStrLen of these characters.
MaxStrLen == 4

NormChars == {"0", "7", " ", "x"}

InitNorm == Idle /\ call \in { [fn |-> "norm_num", arg |-> s] : s \in seqs_upto(NormChars, MaxStrLen) }

CallNormNum ==
    /\ call.fn = "norm_num"
    /\ returns([once |-> norm_num(call.arg), twice |-> norm_num(norm_num(call.arg))])

SpecNorm == InitNorm /\ [][CallNormNum]_vars

\* remove_old_files(folder, pattern, retain_days) at time Now, on folders of
\* up to MaxFiles files of distinct names.
MaxFiles == 2
MaxRetainDays == 2

Now == (MaxRetainDays + 2) * DAY

\* Modification times around each possible cutoff.
Mtimes ==
    { Now } \cup { Now - d * DAY + e : d \in 1..MaxRetainDays, e \in {0 - 1, 0} }

\* Three names the input pattern matches (the third cannot be deleted),
\* one it does not, and one the logs pattern matches.
PruneNames ==
    { [name |-> [prefix |-> "UnmatchedDepartment_", stamp |-> <<1, 0>>, ext |-> "csv"], locked |-> FALSE],
      [name |-> [prefix |-> "UnmatchedDepartment_", stamp |-> <<2, 0>>, ext |-> "csv"], locked |-> FALSE],
      [name |-> [prefix |-> "UnmatchedDepartment_", stamp |-> <<3, 0>>, ext |-> "csv"], locked |-> TRUE],
      [name |-> [prefix |-> "notes", stamp |-> <<1, 0>>, ext |-> "csv"], locked |-> FALSE],
      [name |-> [prefix |-> "DepartmentUpdate_LOG_", stamp |-> <<1, 0>>, ext |-> "txt"], locked |-> FALSE] }

PruneFiles ==
    { [name |-> n.name, mtime |-> m, locked |-> n.locked] : n \in PruneNames, m \in Mtimes }

PruneListings ==
    { l \in seqs_upto(PruneFiles, MaxFiles) :
        \A i, j \in 1..Len(l) : l[i].name = l[j].name => i = j }

InitPrune ==
    /\ Idle
    /\ call \in { [fn |-> "remove_old_files",
                    arg |-> [folder |-> [exists |-> e, listing |-> l], pattern |-> p,
                             retain_days |-> d]] :
                    e \in BOOLEAN, l \in PruneListings, p \in {INPUT_PATTERN, LOGS_PATTERN},
                    d \in (0 - 1)..MaxRetainDays }
    /\ call.arg.folder.exists \/ call.arg.folder.listing = << >>

CallRemoveOldFiles ==
    /\ call.fn = "remove_old_files"
    /\ returns(remove_old_files(call.arg.folder, call.arg.pattern, call.arg.retain_days, Now))

SpecPrune == InitPrune /\ [][CallRemoveOldFiles]_vars

\* The retention of a completed run on the managed folders as its calls
\* find them: each folder holds at most one artifact of an earlier run.
ManagedNames ==
    [input  |-> artifact_paths([date |-> 1, hms |-> 0, micro |-> 0]).input.name,
     logs   |-> artifact_paths([date |-> 1, hms |-> 0, micro |-> 0]).log.name,
     emails |-> artifact_paths([date |-> 1, hms |-> 0, micro |-> 0]).email.name]

ManagedFolders(kind) ==
    { [exists |-> TRUE, listing |-> << >>] }
    \cup { [exists |-> TRUE, listing |-> << [name |-> ManagedNames[kind], mtime |-> m, locked |-> l] >>] :
             m \in Mtimes, l \in BOOLEAN }

InitRetention ==
    /\ Idle
    /\ call \in { [fn |-> "run_retention",
                    arg |-> [folders |-> [input |-> i, logs |-> g, emails |-> m], retain_days |-> d]] :
                    i \in ManagedFolders("input"), g \in ManagedFolders("logs"),
                    m \in ManagedFolders("emails"), d \in 0..MaxRetainDays }

CallRunRetention ==
    /\ call.fn = "run_retention"
    /\ returns(run_retention(call.arg.folders, call.arg.retain_days, Now))

SpecRetention == InitRetention /\ [][CallRunRetention]_vars

\* The artifact paths of two runs, started at any two times.
MaxDate == 2
MaxHms == 2

Whens == [date : 1..MaxDate, hms : 0..MaxHms, micro : 0..1]

InitNames == Idle /\ call \in { [fn |-> "artifact_paths", arg |-> <<a, b>>] : a \in Whens, b \in Whens }

CallArtifactPaths ==
    /\ call.fn = "artifact_paths"
    /\ returns(<<artifact_paths(call.arg[1]), artifact_paths(call.arg[2])>>)

SpecNames == InitNames /\ [][CallArtifactPaths]_vars

\* ------------------------------------------------------------------------
\* Properties of a run (Spec)
\* ------------------------------------------------------------------------

StepOrder ==
    <<"load_config", "prepare", "copy_input", "prune_inputs", "parse", "build_xml",
      "runfile", "run_loader", "index_names", "find_log", "save_email", "send_email",
      "prune_logs", "append_loader_log">>

done(step) == \E i \in 1..Len(steps) : steps[i] = step

has_line(msg) == \E i \in 1..Len(lines) : lines[i].msg = msg

ExitedZero == loader.launched /\ ran.outcome = "exit" /\ ran.rc = 0

\* C1: once the loader step has run, the overall status, and the status in
\* the email subject, is SUCCESS exactly when the loader was executed and
\* returned 0; otherwise it is ISSUE; it is never OK, whatever was recorded
\* earlier in the run.
C1_StatusFollowsLoader ==
    /\ done("run_loader") =>
         /\ subject_status \in {"SUCCESS", "ISSUE"}
         /\ (subject_status = "SUCCESS") <=> ExitedZero
    /\ email.submitted =>
         /\ done("run_loader")
         /\ email.status \in {"SUCCESS", "ISSUE"}
         /\ (email.status = "SUCCESS") <=> ExitedZero

C1_Witness ==
    /\ email.submitted
    /\ email.status = "SUCCESS"
    /\ has_line("Input copy failed")
    /\ Len(records) = 2

\* C2: whatever recoverable failures occur, and whatever the state of the
\* loader's log subfolder, a run that meets no other exception saves the
\* report, submits it to the email sender, then prunes the logs.
OnlyListedFailures ==
    fatal.raised =>
        /\ fatal.at = "find_log"
        /\ fatal.cause = "ValueError: max() arg is an empty sequence"

C2_PipelineContinues ==
    (pc = "returned" /\ OnlyListedFailures) =>
        /\ email.submitted
        /\ \E i, j, k \in 1..Len(steps) :
             /\ i < j /\ j < k
             /\ steps[i] = "save_email" /\ steps[j] = "send_email" /\ steps[k] = "prune_logs"

\* C3: no exception leaves main and main terminates: every step runs at
\* most once and in order, a state other than the return has a next step, an
\* exception ends the sequence at the step that raised it, the [FATAL] line
\* is then attempted (written or not), and main returns.
C3_FatalIsCaught ==
    /\ ~propagated
    /\ pc # "returned" => ENABLED Next
    /\ steps = SubSeq(StepOrder, 1, Len(steps))
    /\ email.submitted <=> done("send_email")
    /\ fatal.raised =>
         /\ pc \in {"except", "returned"}
         /\ Len(steps) < Len(StepOrder)
         /\ StepOrder[Len(steps) + 1] = fatal.at
    /\ fatal.logged => fatal.raised /\ pc = "returned"
    /\ (pc = "returned" /\ ~fatal.raised) => steps = StepOrder

C3_Witness ==
    /\ pc = "returned"
    /\ fatal.raised
    /\ fatal.at = "load_config"
    /\ fatal.logged
    /\ steps = << >>

\* The classification of the loader outcome, with missing_head the first
\* word reported when the document exists but the executable does not.
C4_Classified(missing_head) ==
    /\ ~done("run_loader") => ~loader.launched /\ loader.fa_result = NoResult
    /\ done("run_loader") =>
         LET fr == loader.fa_result
         IN  /\ loader.launched <=> (xml.generated /\ exe_exists)
             /\ fr # NoResult
             /\ loader.launched =>
                  /\ ran.outcome \in {"exit", "timeout", "exception"}
                  /\ (ran.outcome = "exit" /\ ran.rc = 0) =>
                        fr = [head |-> "SUCCESS", rest |-> "", code |-> 0]
                  /\ (ran.outcome = "exit" /\ ran.rc # 0) =>
                        fr = [head |-> "FAILED", rest |-> "(exit code)", code |-> ran.rc]
                  /\ ran.outcome = "timeout" =>
                        fr = [head |-> "FAILED", rest |-> "(timeout)", code |-> 0]
                  /\ ran.outcome = "exception" =>
                        fr = [head |-> "FAILED", rest |-> "(exception)", code |-> 0]
             /\ ~xml.generated =>
                  fr = [head |-> "SKIPPED", rest |-> "(no XML)", code |-> 0]
             /\ (xml.generated /\ ~exe_exists) =>
                  fr = [head |-> missing_head, rest |-> "(FADATALOADER.EXE not found)", code |-> 0]

\* C4 (amended): after the loader step the outcome is exactly one of SUCCESS
\* (ran, exit code 0), FAILED with the exit code (ran, non-zero), FAILED
\* timeout, FAILED exception, SKIPPED (no XML) when no document was
\* generated, and, when the document was generated but the executable is
\* missing, FAILED (FADATALOADER.EXE not found); the process is launched only
\* in the first four cases.
C4_LoaderOutcome == C4_Classified("FAILED")

\* C4 as claimed: a missing executable is classified as SKIPPED.
C4_AsClaimed == C4_Classified("SKIPPED")

C4_Witness ==
    /\ done("run_loader")
    /\ xml.generated
    /\ ~exe_exists
    /\ ~loader.launched

\* C5: with zero parsed records the document is not generated, the loader
\* is not invoked, and the status, from the document step on and in the
\* email subject, is ISSUE.
C5_NoRecords ==
    (done("parse") /\ records = << >>) =>
        /\ ~xml.generated
        /\ ~xml.written
        /\ ~loader.launched
        /\ done("build_xml") => subject_status = "ISSUE"
        /\ email.submitted => email.status = "ISSUE"

C5_Witness ==
    /\ email.submitted
    /\ records = << >>
    /\ has_line("Parsed record(s) from CSV")
    /\ exe_exists

\* C6 (amended): every recorded issue sets the status to ISSUE at that step,
\* and it stays ISSUE until the loader step; the email subject reports ISSUE
\* after an input-missing, parse-failure, empty-parse or generation-failure
\* issue; after an input-copy failure it reports ISSUE unless the loader then
\* ran on the records parsed from the partial copy and returned 0, in which
\* case it reports SUCCESS.
HardIssue ==
    \/ has_line("Input source not found")
    \/ has_line("CSV parse failed")
    \/ has_line("No records to write into XML")
    \/ has_line("XML generation failed")
    \/ \E i \in 1..Len(lines) : lines[i].msg = "Parsed record(s) from CSV" /\ lines[i].n = 0

IssueRecorded == HardIssue \/ has_line("Input copy failed")

C6_IssueDowngrades ==
    /\ (IssueRecorded /\ ~done("run_loader")) => subject_status = "ISSUE"
    /\ (email.submitted /\ HardIssue) => email.status = "ISSUE"
    /\ (email.submitted /\ IssueRecorded) => (email.status = "ISSUE" \/ ExitedZero)

\* C6 as claimed: after any recorded issue the subject is ISSUE, never SUCCESS.
C6_AsClaimed ==
    /\ (IssueRecorded /\ ~done("run_loader")) => subject_status = "ISSUE"
    /\ (email.submitted /\ IssueRecorded) => email.status = "ISSUE"

C6_Witness ==
    /\ email.submitted
    /\ has_line("Input copy failed")
    /\ email.status = "SUCCESS"
    /\ ~HardIssue

\* C8: the document written is the marker row followed by one data row, in
\* input order, for each record whose operator id and new department both
\* parse as integers, and by no other row; the record count in the
\* narrative and in the email subject is that of all parsed records.
int_records == SelectSeq(records, LAMBDA rec : py_int(rec[REQ_OPER]).ok /\ py_int(rec[REQ_NEW]).ok)

range(q) == { q[i] : i \in 1..Len(q) }

txt_logs == { f \in range(call.arg.folder.listing) : f.ext = "txt" }

fresh_logs == { f \in txt_logs : f.mtime >= call.arg.epoch }

newest_in(S, f) == f \in S /\ \A g \in S : g.mtime <= f.mtime

\* C7: the log chosen is a text log of greatest modification time among
\* those modified at or after the invocation start; when none qualifies, a
\* text log of greatest modification time in the subfolder; when the
\* subfolder is absent no log is chosen and the report embeds the 'no log
\* found' message.
C7_LogChoice ==
    ret.done =>
        /\ (call.arg.folder.exists /\ fresh_logs # {}) =>
              /\ ~ret.value.raised
              /\ newest_in(fresh_logs, ret.value.file)
              /\ ret.value.html = [kind |-> "raw log", file |-> ret.value.file]
        /\ (call.arg.folder.exists /\ fresh_logs = {} /\ txt_logs # {}) =>
              /\ ~ret.value.raised
              /\ newest_in(txt_logs, ret.value.file)
              /\ ret.value.html = [kind |-> "raw log", file |-> ret.value.file]
        /\ ~call.arg.folder.exists =>
              /\ ~ret.value.raised
              /\ ret.value.file = NoFile
              /\ ret.value.html.kind = "(No FA .txt log found)"

C7_Witness ==
    /\ ret.done
    /\ Cardinality(fresh_logs) = 2
    /\ Cardinality(txt_logs) = 2
    /\ \E f \in fresh_logs : f.mtime < ret.value.file.mtime
    /\ ret.value.file = call.arg.folder.listing[1]

\* ------------------------------------------------------------------------
\* Properties of read_unmatched (SpecParse)
\* ------------------------------------------------------------------------

both_named(header) == matches(header, REQ_OPER) # {} /\ matches(header, REQ_NEW) # {}

\* The cell of a data row for a role: empty when the role has no column or
\* the row is too short.
role_cell(r, nm, role) ==
    IF role \in DOMAIN nm /\ nm[role] < Len(r) THEN strip(r[nm[role] + 1]) ELSE << >>

kept_rows(rows, nm) ==
    SelectSeq(Tail(rows), LAMBDA r : role_cell(r, nm, REQ_OPER) # << >>
                                      /\ role_cell(r, nm, REQ_NEW) # << >>)

\* C9: for a file of at least 2 rows read_unmatched returns, in file order,
\* one record per data row whose operator-id and new-department cells are
\* both non-empty after trimming, holding norm_num of those cells, and no
\* other record; every returned record has both fields non-empty.
C9_RecordsOfRows ==
    (ret.done /\ Len(call.arg) >= 2) =>
        LET nm   == ret.value.name_map
            kept == kept_rows(call.arg, nm)
        IN  /\ ~ret.value.raised
            /\ Len(ret.value.out) = Len(kept)
            /\ \A i \in 1..Len(kept) :
                 /\ ret.value.out[i][REQ_OPER] = norm_num(role_cell(kept[i], nm, REQ_OPER))
                 /\ ret.value.out[i][REQ_NEW] = norm_num(role_cell(kept[i], nm, REQ_NEW))
                 /\ ret.value.out[i][REQ_OPER] # << >>
                 /\ ret.value.out[i][REQ_NEW] # << >>

\* C10 (amended): when both required roles are matched by name the named
\* columns are used; otherwise, for a header of at least 2 columns, column 0
\* is the operator id, and column 1 the old and column 2 the new department
\* with 3 or more columns, column 1 the new department with exactly 2; for
\* a header of fewer than 2 columns only the operator id is placed (column
\* 0), the new department keeps a column only if a header names it, and
\* without one read_unmatched raises at the first non-empty data row.
positional(header, nm) ==
    /\ REQ_OPER \in DOMAIN nm /\ nm[REQ_OPER] = 0
    /\ Len(header) >= 3 =>
         /\ OPT_OLD \in DOMAIN nm /\ nm[OPT_OLD] = 1
         /\ REQ_NEW \in DOMAIN nm /\ nm[REQ_NEW] = 2
    /\ Len(header) = 2 => REQ_NEW \in DOMAIN nm /\ nm[REQ_NEW] = 1

by_name(header, nm) ==
    /\ REQ_OPER \in DOMAIN nm /\ nm[REQ_OPER] \in matches(header, REQ_OPER)
    /\ REQ_NEW \in DOMAIN nm /\ nm[REQ_NEW] \in matches(header, REQ_NEW)
    /\ OPT_OLD \in DOMAIN nm <=> matches(header, OPT_OLD) # {}
    /\ OPT_OLD \in DOMAIN nm => nm[OPT_OLD] \in matches(header, OPT_OLD)

no_digit_in(r, col) == col >= Len(r) \/ ~any_digit(r[col + 1])

is_header(r) == no_digit_in(r, 0) \/ no_digit_in(r, 3)

\* The rows left after the header rule and the 4-column rule.
indexed_rows(rows) ==
    SelectSeq(IF rows # << >> /\ is_header(rows[1]) THEN Tail(rows) ELSE rows,
              LAMBDA r : Len(r) >= 4)

keys_of(u, keycol) == { norm_num(u[i][keycol]) : i \in 1..Len(u) }

earliest(u, keycol, k) ==
    CHOOSE i \in 1..Len(u) :
        /\ norm_num(u[i][keycol]) = k
        /\ \A j \in 1..(i - 1) : norm_num(u[j][keycol]) # k

first_write_wins(m, u, keycol, namecol, keys) ==
    /\ DOMAIN m = keys
    /\ \A k \in keys : m[k] = strip(u[earliest(u, keycol, k)][namecol])

\* C11 (amended): index_active_list skips row 0 as a header exactly when
\* its column 0 or its column 3 contains no digit, ignores rows of fewer
\* than 4 columns, and maps, for each remaining row, the normalized
\* department code to the department name and the normalized operator id to
\* the operator name, first write wins, except that a row whose normalized
\* code (or id) is empty adds no department (or operator) entry.
C11_IndexFirstWins ==
    (ret.done /\ call.arg.exists /\ call.arg.readable) =>
        LET u == indexed_rows(call.arg.rows)
        IN  /\ ~ret.value.raised
            /\ first_write_wins(ret.value.dept_to_name, u, 1, 2, keys_of(u, 1) \ { << >> })
            /\ first_write_wins(ret.value.oper_to_name, u, 4, 3, keys_of(u, 4) \ { << >> })

\* C11 as claimed: every remaining row adds both entries.
C11_AsClaimed ==
    (ret.done /\ call.arg.exists /\ call.arg.readable) =>
        LET u == indexed_rows(call.arg.rows)
        IN  /\ ~ret.value.raised
            /\ first_write_wins(ret.value.dept_to_name, u, 1, 2, keys_of(u, 1))
            /\ first_write_wins(ret.value.oper_to_name, u, 4, 3, keys_of(u, 4))

C11_Witness ==
    /\ ret.done
    /\ Len(call.arg.rows) = 3
    /\ is_header(call.arg.rows[1])
    /\ Len(indexed_rows(call.arg.rows)) = 2
    /\ norm_num(call.arg.rows[2][1]) = norm_num(call.arg.rows[3][1])
    /\ strip(call.arg.rows[2][2]) # strip(call.arg.rows[3][2])
    /\ ret.value.dept_to_name[<<"1","0">>] = <<"S">>
    /\ ret.value.oper_to_name[<<"7">>] = <<"J">>

\* ------------------------------------------------------------------------
\* Properties of the reference step of a run (Spec)
\* ------------------------------------------------------------------------

all_not_found(table) ==
    \A i \in 1..Len(table) :
        /\ table[i].op_name = NOT_FOUND
        /\ table[i].old_name = NOT_FOUND
        /\ table[i].new_name = NOT_FOUND

\* C12: a missing or unreadable reference file is not an error: it gives
\* two empty mappings, it does not abort the run, and the report is then
\* rendered with every name 'Not Found' and submitted unless a later step
\* of the run raises.
C12_ReferenceNotFatal ==
    /\ fatal.raised => fatal.at # "index_names"
    /\ (index.built /\ ~(index.active.exists /\ index.active.readable)) =>
          /\ index.oper_to_name = << >>
          /\ index.dept_to_name = << >>
          /\ email.rendered => Len(email.table) = Len(records) /\ all_not_found(email.table)
          /\ (pc = "returned" /\ ~fatal.raised) => email.rendered /\ email.submitted

\* ------------------------------------------------------------------------
\* Properties of the email table (SpecReport)
\* ------------------------------------------------------------------------

shown(recs) == IF Len(recs) < TableCap THEN Len(recs) ELSE TableCap

names_of(row) == {row.op_name, row.old_name, row.new_name}

\* The name beside id k: the one the index holds when held(m, k), otherwise
\* 'Not Found'.
name_beside(m, k, held(_, _)) == IF held(m, k) THEN m[k] ELSE NOT_FOUND

table_names(held(_, _)) ==
    /\ Len(ret.value) = shown(call.arg.records)
    /\ \A i \in 1..Len(ret.value) :
         LET rec == call.arg.records[i]
             row == ret.value[i]
         IN  /\ row.oper = get_or_empty(rec, REQ_OPER)
             /\ row.oldd = get_or_empty(rec, OPT_OLD)
             /\ row.newd = get_or_empty(rec, REQ_NEW)
             /\ row.op_name = name_beside(call.arg.oper_to_name, row.oper, held)
             /\ row.old_name = name_beside(call.arg.dept_to_name, row.oldd, held)
             /\ row.new_name = name_beside(call.arg.dept_to_name, row.newd, held)
             /\ << >> \notin names_of(row)

hit(m, k) == k \in DOMAIN m

hit_nonempty(m, k) == k \in DOMAIN m /\ m[k] # << >>

\* C13 (amended): for every record rendered in the email table, each of
\* the operator name, the old-department name and the new-department name
\* is the name held by the reference index when the lookup hits a non-empty
\* name, and is 'Not Found' when the lookup misses (an empty index, a
\* record with no old department) or hits an empty name; no name position
\* is rendered empty and rendering always returns.
C13_NamesRendered == ret.done => table_names(hit_nonempty)

\* C13 as claimed: whenever the lookup hits, the name held is rendered.
C13_AsClaimed == ret.done => table_names(hit)

C13_Witness ==
    /\ ret.done
    /\ Len(ret.value) = 2
    /\ ret.value[1].op_name = <<"J","a","n","e">>
    /\ ret.value[1].new_name = <<"F","l","e","e","t">>
    /\ ret.value[1].old_name = NOT_FOUND
    /\ hit(call.arg.dept_to_name, ret.value[1].oldd)
    /\ OPT_OLD \notin DOMAIN call.arg.records[2]
    /\ ret.value[2].old_name = NOT_FOUND

\* ------------------------------------------------------------------------
\* Properties of remove_old_files (SpecPrune)
\* ------------------------------------------------------------------------

before == call.arg.folder.listing

cutoff_of(retain_days) == Now - retain_days * DAY

\* The files the call is to delete.
due(listing, pattern, retain_days) ==
    { f \in range(listing) :
        glob_match(f.name, pattern) /\ f.mtime < cutoff_of(retain_days) /\ ~f.locked }

\* C14: remove_old_files removes nothing and returns 0 when retain_days is
\* 0 or negative or the folder is absent; otherwise it deletes exactly the
\* pattern-matching files older than the cutoff whose deletion does not
\* fail, leaves every other file, and returns the number it deleted.
C14_PruneExact ==
    ret.done =>
        IF call.arg.retain_days <= 0 \/ ~call.arg.folder.exists
        THEN ret.value.removed = 0 /\ ret.value.listing = before
        ELSE LET gone == due(before, call.arg.pattern, call.arg.retain_days)
             IN  /\ ret.value.listing = SelectSeq(before, LAMBDA f : f \notin gone)
                 /\ ret.value.removed = Cardinality(gone)
                 /\ ret.value.removed = Len(before) - Len(ret.value.listing)

C14_Witness ==
    /\ ret.done
    /\ call.arg.retain_days = 1
    /\ ret.value.removed = 1
    /\ Len(before) = 2
    /\ \E i \in 1..2 : /\ before[i].mtime = cutoff_of(1)
                         /\ glob_match(before[i].name, call.arg.pattern)
                         /\ ~before[i].locked
                         /\ ret.value.listing = <<before[i]>>

\* ------------------------------------------------------------------------
\* Properties of the retention of a run (SpecRetention)
\* ------------------------------------------------------------------------

\* C15: after a completed run with a positive retention window no input
\* copy, run log or saved email report older than the window is left in its
\* managed folder, apart from files whose deletion failed.
C15_RetentionCoversAll ==
    (ret.done /\ call.arg.retain_days > 0) =>
        \A kind \in {"input", "logs", "emails"} :
            \A f \in range(ret.value[kind]) :
                f.mtime >= cutoff_of(call.arg.retain_days) \/ f.locked

\* ------------------------------------------------------------------------
\* Properties of the artifact names (SpecNames)
\* ------------------------------------------------------------------------

\* C16: two runs of different timestamps write four pairwise different
\* paths: input copy, generated document, run log and email report.
C16_UniqueArtifacts ==
    (ret.done /\ stamp(call.arg[1]) # stamp(call.arg[2])) =>
        /\ ret.value[1].input # ret.value[2].input
        /\ ret.value[1].xml # ret.value[2].xml
        /\ ret.value[1].log # ret.value[2].log
        /\ ret.value[1].email # ret.value[2].email

\* ------------------------------------------------------------------------
\* Properties of norm_num (SpecNorm)
\* ------------------------------------------------------------------------

digits_of(s) == SelectSeq(s, isdigit)

\* The number of leading "0" of d.
leading_zeros(d) ==
    CHOOSE k \in 0..Len(d) :
        /\ \A i \in 1..k : d[i] = "0"
        /\ k < Len(d) => d[k + 1] # "0"

\* s without its leading and trailing whitespace.
trimmed(s) ==
    LET inked == { i \in 1..Len(s) : s[i] \notin Whitespace }
    IN  IF inked = {} THEN << >>
        ELSE SubSeq(s, CHOOSE i \in inked : \A j \in inked : i <= j, max_of(inked))

normalized(s) ==
    LET d == digits_of(s)
        z == leading_zeros(d)
    IN  IF d = << >> THEN trimmed(s)
        ELSE IF z = Len(d) THEN <<"0">>
        ELSE SubSeq(d, z + 1, Len(d))

\* C17: norm_num returns for every string: the digits of s without their
\* leading zeros ('0' when all are zeros) when s contains a digit, the
\* trimmed s otherwise; and norm_num(norm_num(s)) = norm_num(s).
C17_NormIdempotent ==
    /\ ~ret.done => ENABLED CallNormNum
    /\ ret.done =>
         /\ ret.value.once = normalized(call.arg)
         /\ ret.value.twice = ret.value.once

C17_Witness ==
    /\ ret.done
    /\ call.arg = <<" ", "0", "x", "7">>
    /\ ret.value.once = <<"7">>
    /\ ret.value.twice = <<"7">>

\* ------------------------------------------------------------------------
\* The loader and the rows of the document (Spec)
\* ------------------------------------------------------------------------

\* C18: the loader is executed only when the document written in this run
\* has at least one data row: when no parsed record has an integer operator
\* id and an integer new department, the loader is not invoked and the run
\* does not report SUCCESS.
C18_LoaderNeedsRows ==
    /\ loader.launched => xml.written /\ xml.doc.rows # << >>
    /\ (done("run_loader") /\ int_records = << >>) =>
          /\ ~loader.launched
          /\ subject_status # "SUCCESS"
          /\ email.submitted => email.status # "SUCCESS"

====
